---- MODULE Spec2Model ----
(***************************************************************************)
(* A model of react-stateful's useQueryState hook (src/unnamed/part_000):  *)
(* the value codec (parseValue / stringifyValue), the keyed Signal store    *)
(* (Signal, getSignal) and the per-binding protocol that reconciles the     *)
(* store with the browser URL (render, effects, setter, popstate).          *)
(*                                                                          *)
(* Four specifications: Spec runs the hook in an application; SpecRemount   *)
(* runs one component that writes and a second one mounted after it;        *)
(* SpecSignal drives the Signal class on its own, with any listeners;       *)
(* SpecCodec makes one call of the codec, the parseValue of                 *)
(* src/src/index.ts included.                                               *)
(*                                                                          *)
(* Strings are sequences of one-character strings.  JavaScript values are   *)
(* records tagged by t; every tag has its own payload field, so values of   *)
(* different types compare unequal instead of failing to compare.           *)
(***************************************************************************)
EXTENDS Integers, Sequences, FiniteSets, TLC

(***************************************************************************)
(* JavaScript values                                                        *)
(***************************************************************************)
Undef == [t |-> "undefined"]
Null == [t |-> "null"]
Bool(b) == [t |-> "boolean", b |-> b]
Num(n) == [t |-> "number", n |-> n]
NaN == [t |-> "number", nan |-> TRUE]
Str(s) == [t |-> "string", s |-> s]
Obj(kv) == [t |-> "object", kv |-> kv]
Arr(el) == [t |-> "array", el |-> el]

\* typeof v: null, plain objects and arrays all answer "object".
TypeOf(v) == IF v.t \in {"null", "object", "array"} THEN "object" ELSE v.t

IsNaNValue(v) == v = NaN

isNumber(v) == v.t = "number" /\ ~IsNaNValue(v)

isBoolean(v) == v.t = "boolean"

isObject(v) == v.t = "object"

isArray(v) == v.t = "array"

(***************************************************************************)
(* Characters                                                               *)
(***************************************************************************)
Digits == <<"0", "1", "2", "3", "4", "5", "6", "7", "8", "9">>

IsDigit(c) == \E i \in 1..10 : Digits[i] = c

DigitVal(c) == (CHOOSE i \in 1..10 : Digits[i] = c) - 1

HexDigitSet == {"0", "1", "2", "3", "4", "5", "6", "7", "8", "9",
                "A", "B", "C", "D", "E", "F", "a", "b", "c", "d", "e", "f"}

\* The characters of the model's strings that encodeURIComponent escapes,
\* each with the two hex digits of its escape.
EscapeTable == << <<"%", "2", "5">>, <<" ", "2", "0">>, <<"\"", "2", "2">>,
                  <<",", "2", "C">>, <<":", "3", "A">>, <<"[", "5", "B">>,
                  <<"]", "5", "D">>, <<"{", "7", "B">>, <<"}", "7", "D">>,
                  <<"=", "3", "D">>, <<"&", "2", "6">>, <<"+", "2", "B">> >>

IsEscaped(c) == \E i \in 1..Len(EscapeTable) : EscapeTable[i][1] = c

EscapeOf(c) ==
  LET e == EscapeTable[CHOOSE i \in 1..Len(EscapeTable) : EscapeTable[i][1] = c]
  IN <<"%", e[2], e[3]>>

UpperHex(h) ==
  CASE h = "a" -> "A" [] h = "b" -> "B" [] h = "c" -> "C"
    [] h = "d" -> "D" [] h = "e" -> "E" [] h = "f" -> "F" [] OTHER -> h

HasUnescape(h1, h2) ==
  \E i \in 1..Len(EscapeTable) :
     EscapeTable[i][2] = UpperHex(h1) /\ EscapeTable[i][3] = UpperHex(h2)

UnescapeOf(h1, h2) ==
  EscapeTable[CHOOSE i \in 1..Len(EscapeTable) :
     EscapeTable[i][2] = UpperHex(h1) /\ EscapeTable[i][3] = UpperHex(h2)][1]

(***************************************************************************)
(* encodeURIComponent / decodeURIComponent                                  *)
(***************************************************************************)
RECURSIVE encodeURIComponent(_)
encodeURIComponent(s) ==
  IF s = <<>> THEN <<>>
  ELSE (IF IsEscaped(Head(s)) THEN EscapeOf(Head(s)) ELSE <<Head(s)>>)
       \o encodeURIComponent(Tail(s))

\* The result is [ok, s]: ok is FALSE where decodeURIComponent throws URIError
\* (a "%" that two hex digits do not follow, or an escape that is not the
\* UTF-8 encoding of a character; every escape outside EscapeTable that the
\* model's strings can hold is a lone byte >= 0x80 or is absent).
RECURSIVE decodeURIComponent(_)
decodeURIComponent(s) ==
  IF s = <<>> THEN [ok |-> TRUE, s |-> <<>>]
  ELSE IF Head(s) # "%"
    THEN LET r == decodeURIComponent(Tail(s))
         IN [ok |-> r.ok, s |-> IF r.ok THEN <<Head(s)>> \o r.s ELSE <<>>]
  ELSE IF Len(s) < 3 \/ s[2] \notin HexDigitSet \/ s[3] \notin HexDigitSet
    THEN [ok |-> FALSE, s |-> <<>>]
  ELSE IF ~HasUnescape(s[2], s[3])
    THEN [ok |-> FALSE, s |-> <<>>]
  ELSE LET r == decodeURIComponent(SubSeq(s, 4, Len(s)))
       IN [ok |-> r.ok,
           s |-> IF r.ok THEN <<UnescapeOf(s[2], s[3])>> \o r.s ELSE <<>>]

(***************************************************************************)
(* Number(string) and String(number), on the integers                       *)
(***************************************************************************)
RECURSIVE DigitsToNat(_)
DigitsToNat(s) ==
  IF s = <<>> THEN 0 ELSE 10 * DigitsToNat(SubSeq(s, 1, Len(s) - 1)) + DigitVal(s[Len(s)])

AllDigits(s) == s # <<>> /\ \A i \in 1..Len(s) : IsDigit(s[i])

RECURSIVE NatToDigits(_)
NatToDigits(n) ==
  IF n < 10 THEN <<Digits[n + 1]>> ELSE NatToDigits(n \div 10) \o <<Digits[(n % 10) + 1]>>

RECURSIVE TrimLeft(_)
TrimLeft(s) == IF s # <<>> /\ Head(s) = " " THEN TrimLeft(Tail(s)) ELSE s

RECURSIVE TrimRight(_)
TrimRight(s) ==
  IF s # <<>> /\ s[Len(s)] = " " THEN TrimRight(SubSeq(s, 1, Len(s) - 1)) ELSE s

\* Number(s): white space is trimmed, the empty string is 0, an optionally
\* signed run of digits is its value, and any other text of the model's
\* strings (which hold no ".", exponent, hex or Infinity forms) is NaN.
ToNumber(s) ==
  LET u == TrimRight(TrimLeft(s))
  IN IF u = <<>> THEN Num(0)
     ELSE IF AllDigits(u) THEN Num(DigitsToNat(u))
     ELSE IF Head(u) = "-" /\ AllDigits(Tail(u)) THEN Num(0 - DigitsToNat(Tail(u)))
     ELSE IF Head(u) = "+" /\ AllDigits(Tail(u)) THEN Num(DigitsToNat(Tail(u)))
     ELSE NaN

\* String(v) for the primitives.
StringOf(v) ==
  CASE v.t = "string" -> v.s
    [] v.t = "boolean" -> IF v.b THEN <<"t", "r", "u", "e">> ELSE <<"f", "a", "l", "s", "e">>
    [] v.t = "number" ->
         IF IsNaNValue(v) THEN <<"N", "a", "N">>
         ELSE IF v.n < 0 THEN <<"-">> \o NatToDigits(0 - v.n)
         ELSE NatToDigits(v.n)
    [] v.t = "null" -> <<"n", "u", "l", "l">>
    [] OTHER -> <<"u", "n", "d", "e", "f", "i", "n", "e", "d">>

(***************************************************************************)
(* JSON.stringify / JSON.parse                                              *)
(***************************************************************************)
RECURSIVE JoinWith(_, _)
JoinWith(parts, sep) ==
  IF parts = <<>> THEN <<>>
  ELSE IF Len(parts) = 1 THEN parts[1]
  ELSE parts[1] \o sep \o JoinWith(Tail(parts), sep)

Quote(s) == <<"\"">> \o s \o <<"\"">>

RECURSIVE SelectDefined(_)
SelectDefined(kv) ==
  IF kv = <<>> THEN <<>>
  ELSE (IF kv[1][2].t = "undefined" THEN <<>> ELSE <<kv[1]>>) \o SelectDefined(Tail(kv))

\* JSON.stringify(v) of a value that is not undefined.  Inside an array
\* undefined and NaN print as null; an object's undefined members are left out.
\* The model's strings hold no character JSON escapes inside a string except
\* the double quote, which no string member of a structured value holds.
RECURSIVE JSONstringify(_)
JSONstringify(v) ==
  CASE v.t = "object" ->
         LET kv == SelectDefined(v.kv)
         IN <<"{">> \o JoinWith([i \in 1..Len(kv) |->
                         Quote(kv[i][1]) \o <<":">> \o JSONstringify(kv[i][2])], <<",">>)
                   \o <<"}">>
    [] v.t = "array" ->
         <<"[">> \o JoinWith([i \in 1..Len(v.el) |->
                        IF v.el[i].t = "undefined" THEN <<"n", "u", "l", "l">>
                        ELSE JSONstringify(v.el[i])], <<",">>)
                 \o <<"]">>
    [] v.t = "string" -> Quote(v.s)
    [] v.t = "number" -> IF IsNaNValue(v) THEN <<"n", "u", "l", "l">> ELSE StringOf(v)
    [] OTHER -> StringOf(v)

ParseFail == [ok |-> FALSE, v |-> Null, i |-> 0]

HasAt(s, i, lit) == i + Len(lit) - 1 <= Len(s) /\ SubSeq(s, i, i + Len(lit) - 1) = lit

RECURSIVE SkipWs(_, _)
SkipWs(s, i) == IF i <= Len(s) /\ s[i] = " " THEN SkipWs(s, i + 1) ELSE i

RECURSIVE DigitRunEnd(_, _)
DigitRunEnd(s, i) == IF i <= Len(s) /\ IsDigit(s[i]) THEN DigitRunEnd(s, i + 1) ELSE i

\* The index of the closing quote of the string that opens before i, or 0.
RECURSIVE CloseQuote(_, _)
CloseQuote(s, i) ==
  IF i > Len(s) THEN 0 ELSE IF s[i] = "\"" THEN i ELSE CloseQuote(s, i + 1)

\* A JSON number at i: an optional minus and an integer part with no leading
\* zero (the model's strings hold no fraction or exponent).
ParseNumber(s, i) ==
  LET neg == i <= Len(s) /\ s[i] = "-"
      j == IF neg THEN i + 1 ELSE i
      k == DigitRunEnd(s, j)
  IN IF k = j THEN ParseFail
     ELSE IF s[j] = "0" /\ k > j + 1 THEN [ok |-> TRUE, v |-> Num(0), i |-> j + 1]
     ELSE [ok |-> TRUE,
           v |-> Num((IF neg THEN -1 ELSE 1) * DigitsToNat(SubSeq(s, j, k - 1))),
           i |-> k]

\* A later member with the same key replaces the earlier one's value.
RECURSIVE PutMember(_, _, _)
PutMember(kv, k, v) ==
  IF kv = <<>> THEN << <<k, v>> >>
  ELSE IF kv[1][1] = k THEN << <<k, v>> >> \o Tail(kv)
  ELSE <<kv[1]>> \o PutMember(Tail(kv), k, v)

RECURSIVE ParseVal(_, _)
RECURSIVE ParseMembers(_, _, _)
RECURSIVE ParseElements(_, _, _)

\* The members of an object from i (after "{" or ","), given those read so far.
ParseMembers(s, i0, acc) ==
  LET i == SkipWs(s, i0)
  IN IF i > Len(s) \/ s[i] # "\"" THEN ParseFail
     ELSE LET q == CloseQuote(s, i + 1)
          IN IF q = 0 THEN ParseFail
             ELSE LET c == SkipWs(s, q + 1)
                  IN IF c > Len(s) \/ s[c] # ":" THEN ParseFail
                     ELSE LET r == ParseVal(s, c + 1)
                          IN IF ~r.ok THEN ParseFail
                             ELSE LET n == SkipWs(s, r.i)
                                      kv == PutMember(acc, SubSeq(s, i + 1, q - 1), r.v)
                                  IN IF n > Len(s) THEN ParseFail
                                     ELSE IF s[n] = "}"
                                       THEN [ok |-> TRUE, v |-> Obj(kv), i |-> n + 1]
                                     ELSE IF s[n] = "," THEN ParseMembers(s, n + 1, kv)
                                     ELSE ParseFail

\* The elements of an array from i (after "[" or ","), given those read so far.
ParseElements(s, i0, acc) ==
  LET r == ParseVal(s, i0)
  IN IF ~r.ok THEN ParseFail
     ELSE LET n == SkipWs(s, r.i)
              el == Append(acc, r.v)
          IN IF n > Len(s) THEN ParseFail
             ELSE IF s[n] = "]" THEN [ok |-> TRUE, v |-> Arr(el), i |-> n + 1]
             ELSE IF s[n] = "," THEN ParseElements(s, n + 1, el)
             ELSE ParseFail

\* One JSON value at i0: [ok, v, i] with i the index after it.
ParseVal(s, i0) ==
  LET i == SkipWs(s, i0)
  IN IF i > Len(s) THEN ParseFail
     ELSE IF s[i] = "{" THEN
       (LET j == SkipWs(s, i + 1)
        IN IF j <= Len(s) /\ s[j] = "}" THEN [ok |-> TRUE, v |-> Obj(<<>>), i |-> j + 1]
           ELSE ParseMembers(s, i + 1, <<>>))
     ELSE IF s[i] = "[" THEN
       (LET j == SkipWs(s, i + 1)
        IN IF j <= Len(s) /\ s[j] = "]" THEN [ok |-> TRUE, v |-> Arr(<<>>), i |-> j + 1]
           ELSE ParseElements(s, i + 1, <<>>))
     ELSE IF s[i] = "\"" THEN
       (LET q == CloseQuote(s, i + 1)
        IN IF q = 0 THEN ParseFail
           ELSE [ok |-> TRUE, v |-> Str(SubSeq(s, i + 1, q - 1)), i |-> q + 1])
     ELSE IF HasAt(s, i, <<"t", "r", "u", "e">>) THEN [ok |-> TRUE, v |-> Bool(TRUE), i |-> i + 4]
     ELSE IF HasAt(s, i, <<"f", "a", "l", "s", "e">>) THEN [ok |-> TRUE, v |-> Bool(FALSE), i |-> i + 5]
     ELSE IF HasAt(s, i, <<"n", "u", "l", "l">>) THEN [ok |-> TRUE, v |-> Null, i |-> i + 4]
     ELSE ParseNumber(s, i)

\* JSON.parse(s): [ok, v]; ok is FALSE where it throws SyntaxError.
JSONparse(s) ==
  LET r == ParseVal(s, 1)
  IN IF r.ok /\ SkipWs(s, r.i) = Len(s) + 1 THEN [ok |-> TRUE, v |-> r.v]
     ELSE [ok |-> FALSE, v |-> Null]

(***************************************************************************)
(* The value codec                                                          *)
(***************************************************************************)
TrueText == <<"t", "r", "u", "e">>

FalseText == <<"f", "a", "l", "s", "e">>

\* Faulty variant: the number test made with Number() instead of the digit pattern.
InferValueAnyNumber(decoded) ==
  IF decoded = TrueText THEN Bool(TRUE)
  ELSE IF decoded = FalseText THEN Bool(FALSE)
  ELSE IF ~IsNaNValue(ToNumber(decoded)) THEN ToNumber(decoded)
  ELSE IF Len(decoded) > 0 /\ decoded[1] \in {"{", "["}
    THEN (LET p == JSONparse(decoded) IN IF p.ok THEN p.v ELSE Str(decoded))
  ELSE Str(decoded)

\* The branch of parseValue taken without a usable hint ("Type inference
\* without defaultValue").
InferValue(decoded) ==
  IF decoded = TrueText THEN Bool(TRUE)
  ELSE IF decoded = FalseText THEN Bool(FALSE)
  ELSE IF AllDigits(decoded) THEN ToNumber(decoded)
  ELSE IF Len(decoded) > 0 /\ decoded[1] \in {"{", "["}
    THEN (LET p == JSONparse(decoded) IN IF p.ok THEN p.v ELSE Str(decoded))
  ELSE Str(decoded)

\* parseValue(value, defaultValue): value is Null or a string.
parseValue(value, defaultValue) ==
  IF value = Null THEN defaultValue
  ELSE LET d == decodeURIComponent(value.s)
       IN IF ~d.ok THEN defaultValue
          ELSE IF defaultValue # Undef /\ isNumber(defaultValue)
            THEN (LET num == ToNumber(d.s) IN IF IsNaNValue(num) THEN defaultValue ELSE num)
          ELSE IF defaultValue # Undef /\ isBoolean(defaultValue)
            THEN (IF d.s = TrueText THEN Bool(TRUE)
                  ELSE IF d.s = FalseText THEN Bool(FALSE) ELSE defaultValue)
          ELSE IF defaultValue # Undef /\ (isObject(defaultValue) \/ isArray(defaultValue))
            THEN (LET p == JSONparse(d.s)
                  IN IF p.ok /\ TypeOf(p.v) = TypeOf(defaultValue) THEN p.v ELSE defaultValue)
          ELSE InferValue(d.s)

\* stringifyValue(value)
stringifyValue(value) ==
  IF value = Null \/ value = Undef THEN <<>>
  ELSE IF TypeOf(value) = "object" THEN JSONstringify(value)
  ELSE StringOf(value)

(***************************************************************************)
(* Bounds and input sets                                                    *)
(***************************************************************************)
\* Number of binding instances (components calling useQueryState).
MaxBindings == 2

\* Longest browser history (entries), the initial entry included.
MaxHist == 3

Bindings == 1..MaxBindings

\* The names bindings are created with.
Names == {<<"q">>, <<"p">>}

Unnamed == <<"u", "n", "n", "a", "m", "e", "d">>

\* key = encodeURIComponent(name), the empty name replaced by 'unnamed'.
KeyOf(name) == encodeURIComponent(IF name = <<>> THEN Unnamed ELSE name)

KeySet == {KeyOf(n) : n \in Names}

Q == KeyOf(<<"q">>)

\* A query string as URLSearchParams presents it: key -> string, or Null
\* where the key is absent.
NoQuery == [k \in KeySet |-> Null]

\* Initial-parameter snapshots handed to a binding: a plain record (like
\* FALSE) or an object with get (like TRUE).
NoSnapshot == [like |-> FALSE, map |-> [k \in KeySet |-> Undef]]

RecordSnapshot(raw) ==
  [like |-> FALSE, map |-> [k \in KeySet |-> IF k = Q THEN Str(raw) ELSE Undef]]

GetSnapshot(raw) ==
  [like |-> TRUE, map |-> [k \in KeySet |-> IF k = Q THEN Str(raw) ELSE Null]]

\* What a setter is called with: a literal, or an updater function.
\*   inc:   prev => (typeof prev === 'number' ? prev : 0) + 1
\*   undef: prev => {}            (returns nothing)
\*   throw: prev => { throw ... }
Lit(v) == [fn |-> "none", v |-> v]

Upd(f) == [fn |-> f, v |-> Undef]

Config(name, params, dflt) == [name |-> name, params |-> params, dflt |-> dflt]

\* The applications that use the hook: the calls useQueryState(name, params,
\* defaultValue) their components make (undefined: no default given), what
\* their event handlers pass to the setter, and the address bar on load.
Apps ==
  << \* a search box and its results, with a Clear button; the user types
     \* "hi" or "1"
     [configs |-> {Config(<<"q">>, NoSnapshot, Str(<<>>)),
                   Config(<<"q">>, GetSnapshot(<<"a">>), Undef)},
      inputs |-> {Lit(Str(<<"h", "i">>)), Lit(Str(<<"1">>)), Lit(Str(<<>>)), Lit(Null)},
      searches |-> {NoQuery, [NoQuery EXCEPT ![Q] = Str(<<"a">>)]}],
     \* a counter, server-rendered from ?q=1 and loaded at ?q=2 or without q
     [configs |-> {Config(<<"q">>, RecordSnapshot(<<"1">>), Num(0))},
      inputs |-> {Lit(Num(0)), Upd("inc"), Upd("throw")},
      searches |-> {NoQuery, [NoQuery EXCEPT ![Q] = Str(<<"2">>)]}],
     \* a filter panel with an object default written inline
     [configs |-> {Config(<<"q">>, NoSnapshot, Obj(<<>>))},
      inputs |-> {Lit(Obj(<< <<<<"a">>, Num(1)>> >>)), Lit(Null), Upd("undef")},
      searches |-> {NoQuery}],
     \* a dialog flag and a second, unrelated parameter
     [configs |-> {Config(<<"q">>, NoSnapshot, Bool(FALSE)),
                   Config(<<"p">>, NoSnapshot, Undef)},
      inputs |-> {Lit(Bool(TRUE)), Lit(Bool(FALSE)), Lit(Undef)},
      searches |-> {NoQuery}] >>

\* Largest number the inc updater is asked to produce.
MaxNum == 2

ApplyUpdater(f, prev) ==
  CASE f = "inc" -> IF prev.t = "number"
                    THEN (IF IsNaNValue(prev) THEN NaN ELSE Num(prev.n + 1))
                    ELSE Num(1)
    [] OTHER -> Undef

(***************************************************************************)
(* State                                                                    *)
(***************************************************************************)
VARIABLES
  store,         \* the registry: key -> index into signals, 0 where absent
  signals,       \* the Signal instances created so far: [value, listeners]
  bind,          \* per binding: the hook instance's state
  hasWindow,     \* typeof window !== 'undefined'
  search,        \* window.location.search, as URLSearchParams presents it
  hist,          \* the session history: the search of each entry
  hidx,          \* the current history entry
  popListeners,  \* bindings whose popstate listener is registered, in order
  last,          \* the last event, for stating the properties
  app,           \* which application of Apps is running
  sig,           \* a Signal instance used on its own, with any listeners
  codec          \* a call of the value codec: its arguments and its result

vars ==
  <<store, signals, bind, hasWindow, search, hist, hidx, popListeners, last, app,
    sig, codec>>

Unborn ==
  [phase |-> "unborn", key |-> Q, dflt |-> Undef, initialValue |-> Undef,
   value |-> Undef, isInitialRender |-> TRUE, signalRef |-> 0, reconciled |-> FALSE]

\* An event: the operation, its binding, the setter's updater, the value it
\* wrote, the Signal value an inc updater was applied to, and two facts about
\* the state it started from (flag, diff: see each operation).
Event(op, b, fn, v, pre, flag, diff) ==
  [op |-> op, b |-> b, fn |-> fn, v |-> v, pre |-> pre, flag |-> flag, diff |-> diff]

NoEvent == Event("init", 0, "none", Undef, Undef, FALSE, FALSE)

RECURSIVE Without(_, _)
Without(seq, x) ==
  IF seq = <<>> THEN <<>>
  ELSE (IF Head(seq) = x THEN <<>> ELSE <<Head(seq)>>) \o Without(Tail(seq), x)

InSeq(x, seq) == \E i \in 1..Len(seq) : seq[i] = x

(***************************************************************************)
(* The keyed store                                                          *)
(***************************************************************************)
\* Faulty variant: getParam taking an array's last element.
getParamLast(params, key) ==
  LET value == params.map[key]
  IN IF params.like THEN value
     ELSE IF value.t = "array"
       THEN (IF Len(value.el) >= 1 /\ value.el[Len(value.el)] \notin {Null, Undef}
             THEN value.el[Len(value.el)] ELSE Null)
     ELSE IF value \in {Null, Undef} THEN Null ELSE value

\* getParam(params, key)
getParam(params, key) ==
  LET value == params.map[key]
  IN IF params.like THEN value
     ELSE IF value.t = "array"
       THEN (IF Len(value.el) >= 1 /\ value.el[1] \notin {Null, Undef}
             THEN value.el[1] ELSE Null)
     ELSE IF value \in {Null, Undef} THEN Null ELSE value

\* Faulty variant: getSignal without the lookup: a new instance on every call.
getSignalAlwaysNew(st, sigs, key, value) ==
  [store |-> [st EXCEPT ![key] = Len(sigs) + 1],
   signals |-> Append(sigs, [value |-> value, listeners |-> <<>>]),
   ref |-> Len(sigs) + 1]

\* Faulty variant: getSignal storing the value passed in the instance found.
getSignalReseeds(st, sigs, key, value) ==
  IF st[key] # 0
  THEN [store |-> st, signals |-> [sigs EXCEPT ![st[key]].value = value], ref |-> st[key]]
  ELSE [store |-> [st EXCEPT ![key] = Len(sigs) + 1],
        signals |-> Append(sigs, [value |-> value, listeners |-> <<>>]),
        ref |-> Len(sigs) + 1]

\* getSignal(key, value) on registry st and instances sigs: the registry and
\* instances afterwards, and the index of the instance returned.
getSignal(st, sigs, key, value) ==
  IF st[key] # 0 THEN [store |-> st, signals |-> sigs, ref |-> st[key]]
  ELSE [store |-> [st EXCEPT ![key] = Len(sigs) + 1],
        signals |-> Append(sigs, [value |-> value, listeners |-> <<>>]),
        ref |-> Len(sigs) + 1]

\* Faulty variant: notify that stops after its first listener.
notifyFirstOnly(sigs, bnd, id, newValue) ==
  [signals |-> [sigs EXCEPT ![id].value = newValue],
   bind |-> [b \in Bindings |->
               IF sigs[id].listeners # <<>> /\ b = Head(sigs[id].listeners)
               THEN [bnd[b] EXCEPT !.value = newValue] ELSE bnd[b]]]

\* Signal.notify(newValue) on instance id: the value is stored, then every
\* listener (a binding's setValue) is called with it.
notify(sigs, bnd, id, newValue) ==
  [signals |-> [sigs EXCEPT ![id].value = newValue],
   bind |-> [b \in Bindings |->
               IF InSeq(b, sigs[id].listeners)
               THEN [bnd[b] EXCEPT !.value = newValue] ELSE bnd[b]]]

\* Faulty variant: subscribe that does not keep the listener.
subscribeDropped(sigs, id, b) == sigs

\* Signal.subscribe(fn) and the function it returns.
subscribe(sigs, id, b) == [sigs EXCEPT ![id].listeners = Append(@, b)]

\* Faulty variant: the returned function written with splice(indexOf(fn), 1): where
\* fn is not in the array, indexOf answers -1 and splice removes the last entry.
unsubscribeSplice(sigs, id, b) ==
  LET ls == sigs[id].listeners
      at == {i \in 1..Len(ls) : ls[i] = b}
      k == IF at = {} THEN Len(ls) ELSE CHOOSE i \in at : \A j \in at : i <= j
  IN [sigs EXCEPT ![id].listeners = SubSeq(ls, 1, k - 1) \o SubSeq(ls, k + 1, Len(ls))]

\* Faulty variant: the returned function emptying the listener array.
unsubscribeAll(sigs, id, b) == [sigs EXCEPT ![id].listeners = <<>>]

unsubscribe(sigs, id, b) == [sigs EXCEPT ![id].listeners = Without(@, b)]

(***************************************************************************)
(* The binding: useQueryState                                               *)
(***************************************************************************)
\* What the hook returns from a render (line 231).
Returned(bd) == IF bd.isInitialRender THEN bd.initialValue ELSE bd.value

\* The first render of binding b: the body of useQueryState.
useQueryState(b, name, params, defaultValue) ==
  /\ bind[b].phase = "unborn"
  /\ \A c \in Bindings : c < b => bind[c].phase # "unborn"
  /\ LET key == KeyOf(name)
         paramValue == getParam(params, key)
         initialValue == parseValue(paramValue, defaultValue)
         g == getSignal(store, signals, key, initialValue)
     IN /\ store' = g.store
        /\ signals' = g.signals
        /\ bind' = [bind EXCEPT ![b] =
                      [phase |-> "rendered", key |-> key, dflt |-> defaultValue,
                       initialValue |-> initialValue, value |-> initialValue,
                       isInitialRender |-> TRUE, signalRef |-> g.ref,
                       reconciled |-> FALSE]]
        \* flag: the key already had a Signal; diff: and the event before this
        \* render was a setter call that wrote that Signal
        /\ last' = Event("render", b, "none", initialValue, Undef, store[key] # 0,
                         /\ store[key] # 0
                         /\ last.op = "set" /\ ~last.flag
                         /\ bind[last.b].signalRef = store[key])
  /\ UNCHANGED <<sig, codec, app, hasWindow, search, hist, hidx, popListeners>>

\* The effects of the first commit, in order: setIsInitialRender(false); the
\* reconciliation effect (skipped: isInitialRender is still true in this
\* render's closure); subscribe(setValue); the popstate listener.
MountEffects(b) ==
  /\ bind[b].phase = "rendered"
  /\ signals' = subscribe(signals, bind[b].signalRef, b)
  /\ bind' = [bind EXCEPT ![b].phase = "mounted", ![b].isInitialRender = FALSE]
  /\ popListeners' = IF hasWindow THEN Append(popListeners, b) ELSE popListeners
  /\ last' = Event("mount", b, "none", Undef, Undef, FALSE, FALSE)
  /\ UNCHANGED <<sig, codec, app, store, hasWindow, search, hist, hidx>>

\* Other policy: the reconciliation guarded by the key's presence, as the earlier
\* variant of the hook had it (src/src/index.ts, line 198).
ReconcileIfPresent(sigs, bnd, b) ==
  IF hasWindow /\ search[bnd[b].key] # Null
  THEN notify(sigs, bnd, bnd[b].signalRef, parseValue(search[bnd[b].key], bnd[b].dflt))
  ELSE [signals |-> sigs, bind |-> bnd]

\* Faulty variant: the reconciliation writing the value resolved at render from the
\* snapshot instead of the live URL's.
ReconcileFromSnapshot(sigs, bnd, b) ==
  IF hasWindow
  THEN notify(sigs, bnd, bnd[b].signalRef, bnd[b].initialValue)
  ELSE [signals |-> sigs, bind |-> bnd]

\* Faulty variant: the reconciliation without the typeof window test, reading an
\* empty query where there is no browser.
ReconcileUnguarded(sigs, bnd, b) ==
  notify(sigs, bnd, bnd[b].signalRef, parseValue(search[bnd[b].key], bnd[b].dflt))

\* The reconciliation effect's body (lines 165-175) for binding b.
Reconcile(sigs, bnd, b) ==
  IF hasWindow
  THEN notify(sigs, bnd, bnd[b].signalRef, parseValue(search[bnd[b].key], bnd[b].dflt))
  ELSE [signals |-> sigs, bind |-> bnd]

\* flag: b had reconciled before; diff: the Signal held another value before.
ReconcileEvent(b) ==
  LET urlValue == parseValue(search[bind[b].key], bind[b].dflt)
  IN IF hasWindow
     THEN Event("reconcile", b, "none", urlValue, Undef, bind[b].reconciled,
                signals[bind[b].signalRef].value # urlValue)
     ELSE Event("rerender", b, "none", Undef, Undef, FALSE, FALSE)

\* The re-render that setIsInitialRender(false) causes, with its effects: the
\* render calls getSignal again, and the reconciliation effect runs because
\* isInitialRender changed.
Rerender(b) ==
  /\ bind[b].phase = "mounted"
  /\ LET g == getSignal(store, signals, bind[b].key, bind[b].initialValue)
         r == Reconcile(g.signals, bind, b)
     IN /\ store' = g.store
        /\ signals' = r.signals
        /\ bind' = [r.bind EXCEPT ![b].phase = "live", ![b].reconciled = hasWindow]
  /\ last' = ReconcileEvent(b)
  /\ UNCHANGED <<sig, codec, app, hasWindow, search, hist, hidx, popListeners>>

\* A later re-render in which the caller passes a default of a new identity
\* (an object or array literal written inline): the effects whose dependencies
\* hold defaultValue run again, the reconciliation effect and the popstate
\* effect (its cleanup, then a new listener).
RerenderNewDefault(b) ==
  /\ bind[b].phase = "live"
  /\ isObject(bind[b].dflt) \/ isArray(bind[b].dflt)
  /\ LET g == getSignal(store, signals, bind[b].key, bind[b].initialValue)
         r == Reconcile(g.signals, bind, b)
     IN /\ store' = g.store
        /\ signals' = r.signals
        /\ bind' = [r.bind EXCEPT ![b].reconciled = hasWindow]
  /\ popListeners' = IF hasWindow THEN Append(Without(popListeners, b), b)
                     ELSE popListeners
  /\ last' = ReconcileEvent(b)
  /\ UNCHANGED <<sig, codec, app, hasWindow, search, hist, hidx>>

\* Faulty variant: the deletion test written as JavaScript falsiness (!nextValue).
RemovesKeyFalsy(nextValue) ==
  nextValue \in {Null, Undef, Bool(FALSE), Str(<<>>), Num(0), NaN}

\* Whether the setter deletes the key from the query (line 196).
RemovesKey(nextValue) ==
  nextValue = Null \/ nextValue = Bool(FALSE) \/ nextValue = Str(<<>>)

\* Faulty variant: the query built from an empty URLSearchParams.
WriteQueryOnly(srch, key, nextValue) ==
  IF RemovesKey(nextValue) THEN [k \in DOMAIN srch |-> Null]
  ELSE [k \in DOMAIN srch |->
          IF k = key THEN Str(encodeURIComponent(stringifyValue(nextValue))) ELSE Null]

\* The query after the setter's params.delete / params.set (lines 195-200).
WriteQuery(srch, key, nextValue) ==
  IF RemovesKey(nextValue) THEN [srch EXCEPT ![key] = Null]
  ELSE [srch EXCEPT ![key] = Str(encodeURIComponent(stringifyValue(nextValue)))]

\* Faulty variant: the updater applied to the binding's local copy.
NextValueFromLocal(b, inp) ==
  IF inp.fn = "none" THEN inp.v ELSE ApplyUpdater(inp.fn, bind[b].value)

\* The value the setter writes: the literal, or the updater applied to the
\* Signal's value (lines 188-190).
NextValue(b, inp) ==
  IF inp.fn = "none" THEN inp.v
  ELSE ApplyUpdater(inp.fn, signals[bind[b].signalRef].value)

\* Faulty variant: the entry replaced in place (history.replaceState).
replaceState(h, i, srch) == [hist |-> [h EXCEPT ![i] = srch], hidx |-> i]

\* window.history.pushState (line 203) on history h whose current entry is
\* i: the entries after i are dropped, the new entry is appended and becomes
\* current.
pushState(h, i, srch) == [hist |-> Append(SubSeq(h, 1, i), srch), hidx |-> i + 1]

\* Faulty variant: the try/catch around the updater call alone, its exception
\* taken as a result of undefined.
setQueryValueWritesOnThrow(b, inp) ==
  /\ bind[b].phase \in {"rendered", "mounted", "live"}
  /\ hasWindow => hidx < MaxHist
  /\ LET nextValue == IF inp.fn = "throw" THEN Undef ELSE NextValue(b, inp)
         n == notify(signals, bind, bind[b].signalRef, nextValue)
         cur == signals[bind[b].signalRef].value
     IN /\ nextValue.t = "number" /\ ~IsNaNValue(nextValue) => nextValue.n <= MaxNum
        /\ signals' = n.signals
        /\ bind' = n.bind
        /\ last' = Event("set", b, inp.fn, nextValue,
                         IF inp.fn = "inc" THEN cur ELSE Undef, inp.fn = "throw",
                         bind[b].value # cur)
        /\ IF hasWindow
           THEN /\ search' = WriteQuery(search, bind[b].key, nextValue)
                /\ hist' = pushState(hist, hidx, search').hist
                /\ hidx' = pushState(hist, hidx, search').hidx
           ELSE UNCHANGED <<search, hist, hidx>>
  /\ UNCHANGED <<sig, codec, app, store, hasWindow, popListeners>>

\* The setter returned to binding b's caller, called with inp.
setQueryValue(b, inp) ==
  /\ bind[b].phase \in {"rendered", "mounted", "live"}
  /\ hasWindow => hidx < MaxHist
  /\ LET nextValue == NextValue(b, inp)
         n == notify(signals, bind, bind[b].signalRef, nextValue)
         cur == signals[bind[b].signalRef].value
         \* flag: the updater threw; diff: b's local copy was stale
         ev == Event("set", b, inp.fn, nextValue,
                     IF inp.fn = "inc" THEN cur ELSE Undef, FALSE, bind[b].value # cur)
     IN IF inp.fn = "throw"
        THEN /\ last' = Event("set", b, inp.fn, Undef, Undef, TRUE, FALSE)
             /\ UNCHANGED <<signals, bind, search, hist, hidx>>
        ELSE /\ nextValue.t = "number" /\ ~IsNaNValue(nextValue) => nextValue.n <= MaxNum
             /\ signals' = n.signals
             /\ bind' = n.bind
             /\ last' = ev
             /\ IF hasWindow
                THEN /\ search' = WriteQuery(search, bind[b].key, nextValue)
                     /\ hist' = pushState(hist, hidx, search').hist
                     /\ hidx' = pushState(hist, hidx, search').hidx
                ELSE UNCHANGED <<search, hist, hidx>>
  /\ UNCHANGED <<sig, codec, app, store, hasWindow, popListeners>>

\* Faulty variant: handleUrlChange reading the query of the entry being left.
handleUrlChangeStale(sigs, bnd, b, srch) ==
  notify(sigs, bnd, bnd[b].signalRef, parseValue(search[bnd[b].key], bnd[b].dflt))

\* Faulty variant: a handler that leaves the Signal alone when the key is absent.
handleUrlChangeIfPresent(sigs, bnd, b, srch) ==
  IF srch[bnd[b].key] = Null THEN [signals |-> sigs, bind |-> bnd]
  ELSE notify(sigs, bnd, bnd[b].signalRef, parseValue(srch[bnd[b].key], bnd[b].dflt))

\* handleUrlChange of binding b's listener, the query being srch.
handleUrlChange(sigs, bnd, b, srch) ==
  notify(sigs, bnd, bnd[b].signalRef, parseValue(srch[bnd[b].key], bnd[b].dflt))

\* The popstate event: every registered listener, in registration order.
RECURSIVE RunPopListeners(_, _, _, _)
RunPopListeners(ls, sigs, bnd, srch) ==
  IF ls = <<>> THEN [signals |-> sigs, bind |-> bnd]
  ELSE LET n == handleUrlChange(sigs, bnd, Head(ls), srch)
       IN RunPopListeners(Tail(ls), n.signals, n.bind, srch)

\* Faulty variant: the handlers write the URL they read back with pushState.
popstateRepushes(d) ==
  /\ hasWindow
  /\ hidx + d \in 1..Len(hist)
  /\ hidx' = hidx + d + 1
  /\ hist' = Append(SubSeq(hist, 1, hidx + d), hist[hidx + d])
  /\ search' = hist[hidx + d]
  /\ LET r == RunPopListeners(popListeners, signals, bind, hist[hidx + d])
     IN /\ signals' = r.signals
        /\ bind' = r.bind
        /\ last' = Event("pop", 0, "none", Undef, Undef, FALSE,
                         \E i \in 1..Len(signals) : r.signals[i].value # signals[i].value)
  /\ UNCHANGED <<sig, codec, app, store, hasWindow, popListeners>>

\* The user goes back (d = -1) or forward (d = 1): the browser makes that
\* entry current and fires popstate.
popstate(d) ==
  /\ hasWindow
  /\ hidx + d \in 1..Len(hist)
  /\ hidx' = hidx + d
  /\ search' = hist[hidx + d]
  /\ LET r == RunPopListeners(popListeners, signals, bind, hist[hidx + d])
     IN /\ signals' = r.signals
        /\ bind' = r.bind
        \* diff: the event changed some Signal's value
        /\ last' = Event("pop", 0, "none", Undef, Undef, FALSE,
                         \E i \in 1..Len(signals) : r.signals[i].value # signals[i].value)
  /\ UNCHANGED <<sig, codec, app, store, hasWindow, hist, popListeners>>

\* Teardown: the cleanups of the subscribe effect and the popstate effect.
Unmount(b) ==
  /\ bind[b].phase \in {"mounted", "live"}
  /\ signals' = unsubscribe(signals, bind[b].signalRef, b)
  /\ popListeners' = Without(popListeners, b)
  /\ bind' = [bind EXCEPT ![b].phase = "unmounted"]
  /\ last' = Event("unmount", b, "none", Undef, Undef, FALSE, FALSE)
  /\ UNCHANGED <<sig, codec, app, store, hasWindow, search, hist, hidx>>

(***************************************************************************)
(* The Signal class on its own, with a client's listeners                   *)
(***************************************************************************)
\* The listener functions a client subscribes:
\*   a, b:  v => { seen = v }
\*   t:     v => { throw new Error() }
\*   o:     v => { off(); seen = v }, off being the function the client's
\*          latest subscribe(o) call returned
Fns == {"a", "b", "t", "o"}

\* Most listeners a Signal holds at a time.
MaxListeners == 3

\* The values the client passes to notify.
SigValues == {Num(0), Num(1)}

\* What the last call on the Signal did: the listeners and whether the value
\* held equalled v before it, the listener invocations <<fn, argument>> in
\* order, the console.error calls, whether the call threw to its caller, and
\* (unsubscribe) whether the function had been called before.
SigEvent(op, fn, v, pre, same, calls, caught, thrown, again) ==
  [op |-> op, fn |-> fn, v |-> v, pre |-> pre, same |-> same, calls |-> calls,
   caught |-> caught, thrown |-> thrown, again |-> again]

NoSigEvent == SigEvent("new", "none", Undef, <<>>, FALSE, <<>>, 0, FALSE, FALSE)

\* new Signal(value), with the unsubscribe functions the client holds, each
\* named by the listener it was returned for: the latest one returned for the
\* listener while not called yet (fresh), and one called before (used).  Of
\* the last notify it keeps the value the Signal held at each listener
\* invocation, in order (seen), and the number of invocations made when the
\* caller, where it is a setter, went on to write the URL (pushedAt).
NewSignal(value) ==
  [value |-> value, listeners |-> <<>>, fresh |-> {}, used |-> {}, ev |-> NoSigEvent,
   seen |-> <<>>, pushedAt |-> 0]

\* The Signal that stands unused while the hook runs.
NoSignal == NewSignal(Undef)

\* listeners.forEach(...) of notify over the array as it was when the call
\* began (rest: the part not visited yet).  A throw is caught and logged; o's
\* off() gives this.listeners a new, filtered array and leaves the array
\* being visited alone.
RECURSIVE ForEachListener(_, _, _)
ForEachListener(rest, newValue, r) ==
  IF rest = <<>> THEN r
  ELSE LET fn == Head(rest)
           called == [r EXCEPT !.calls = Append(@, <<fn, newValue>>),
                               !.seen = Append(@, r.value)]
           done == CASE fn = "t" -> [called EXCEPT !.caught = @ + 1]
                     [] fn = "o" -> [called EXCEPT !.listeners = Without(@, "o"),
                                                   !.fresh = @ \ {"o"},
                                                   !.used = @ \cup {"o"}]
                     [] OTHER -> called
       IN ForEachListener(Tail(rest), newValue, done)

\* Faulty variant: notify that returns early when the value is the one held.
SignalNotifyIfChanged(s, newValue) ==
  IF s.value = newValue
  THEN [value |-> newValue, listeners |-> s.listeners, fresh |-> s.fresh, used |-> s.used,
        calls |-> <<>>, seen |-> <<>>, caught |-> 0, thrown |-> FALSE]
  ELSE ForEachListener(s.listeners, newValue,
         [value |-> newValue, listeners |-> s.listeners, fresh |-> s.fresh, used |-> s.used,
          calls |-> <<>>, seen |-> <<>>, caught |-> 0, thrown |-> FALSE])

\* Faulty variant: notify without the try/catch around the listener call, as the
\* Signal of src/src/index.ts has it (line 33): the first throwing listener
\* ends the loop and the exception reaches the caller.
SignalNotifyUnguarded(s, newValue) ==
  LET ts == {i \in 1..Len(s.listeners) : s.listeners[i] = "t"}
      stop == IF ts = {} THEN Len(s.listeners)
              ELSE CHOOSE i \in ts : \A j \in ts : i <= j
      r == ForEachListener(SubSeq(s.listeners, 1, stop), newValue,
             [value |-> newValue, listeners |-> s.listeners, fresh |-> s.fresh, used |-> s.used,
              calls |-> <<>>, seen |-> <<>>, caught |-> 0, thrown |-> FALSE])
  IN [r EXCEPT !.caught = 0, !.thrown = ts # {}]

\* Faulty variant: notify that stores the value after the loop instead of before.
SignalNotifyStoresLast(s, newValue) ==
  [ForEachListener(s.listeners, newValue,
     [value |-> s.value, listeners |-> s.listeners, fresh |-> s.fresh, used |-> s.used,
      calls |-> <<>>, seen |-> <<>>, caught |-> 0, thrown |-> FALSE])
   EXCEPT !.value = newValue]

\* Signal.notify(newValue) on Signal s (lines 110-119): the value is stored,
\* then every listener of the array is called with it.
SignalNotify(s, newValue) ==
  ForEachListener(s.listeners, newValue,
    [value |-> newValue, listeners |-> s.listeners, fresh |-> s.fresh, used |-> s.used,
     calls |-> <<>>, seen |-> <<>>, caught |-> 0, thrown |-> FALSE])

\* The client calls sig.subscribe(fn) and keeps the function returned.
SigSubscribe(fn) ==
  /\ Len(sig.listeners) < MaxListeners
  /\ sig' = [subscribe(<<sig>>, 1, fn)[1] EXCEPT
               !.fresh = @ \cup {fn}, !.seen = <<>>, !.pushedAt = 0,
               !.ev = SigEvent("subscribe", fn, Undef, sig.listeners, FALSE, <<>>, 0,
                               FALSE, FALSE)]
  /\ UNCHANGED <<store, signals, bind, hasWindow, search, hist, hidx, popListeners,
                 last, app, codec>>

\* The client calls a function that subscribe(fn) returned: one it has not
\* called yet, or (again) one it has called before.
SigUnsubscribe(fn, again) ==
  /\ fn \in (IF again THEN sig.used ELSE sig.fresh)
  /\ sig' = [unsubscribe(<<sig>>, 1, fn)[1] EXCEPT
               !.fresh = IF again THEN @ ELSE @ \ {fn}, !.seen = <<>>, !.pushedAt = 0,
               !.used = @ \cup {fn},
               !.ev = SigEvent("unsubscribe", fn, Undef, sig.listeners, FALSE, <<>>, 0,
                               FALSE, again)]
  /\ UNCHANGED <<store, signals, bind, hasWindow, search, hist, hidx, popListeners,
                 last, app, codec>>

\* The client calls sig.notify(v).
SigNotify(v) ==
  /\ LET r == SignalNotify(sig, v)
     IN sig' = [sig EXCEPT
                  !.value = r.value, !.listeners = r.listeners,
                  !.fresh = r.fresh, !.used = r.used, !.seen = r.seen, !.pushedAt = 0,
                  !.ev = SigEvent("notify", "none", v, sig.listeners, sig.value = v,
                                  r.calls, r.caught, r.thrown, FALSE)]
  /\ UNCHANGED <<store, signals, bind, hasWindow, search, hist, hidx, popListeners,
                 last, app, codec>>

\* The client is a writer like the hook's setter (lines 192-203): it calls
\* sig.notify(v) and, when that has returned, goes on to write the URL.
SigSetter(v) ==
  /\ LET r == SignalNotify(sig, v)
     IN sig' = [sig EXCEPT
                  !.value = r.value, !.listeners = r.listeners,
                  !.fresh = r.fresh, !.used = r.used, !.seen = r.seen,
                  !.pushedAt = Len(r.calls),
                  !.ev = SigEvent("set", "none", v, sig.listeners, sig.value = v,
                                  r.calls, r.caught, r.thrown, FALSE)]
  /\ UNCHANGED <<store, signals, bind, hasWindow, search, hist, hidx, popListeners,
                 last, app, codec>>

(***************************************************************************)
(* The value codec on its own                                               *)
(***************************************************************************)
\* parseValue as src/src/index.ts has it (lines 51-59): [thrown, v].
\* decodeURIComponent is called before the try, so its URIError leaves the
\* function; JSON.parse is inside the try.
indexParseValue(value, defaultValue) ==
  IF value = Null
  THEN [thrown |-> FALSE, v |-> IF defaultValue \in {Null, Undef} THEN Null ELSE defaultValue]
  ELSE LET d == decodeURIComponent(value.s)
       IN IF ~d.ok THEN [thrown |-> TRUE, v |-> Undef]
          ELSE LET p == JSONparse(d.s)
               IN [thrown |-> FALSE, v |-> IF p.ok THEN p.v ELSE Str(d.s)]

ObjA1 == Obj(<< <<<<"a">>, Num(1)>> >>)

\* Raw parameter values: absent, or the text after "q=".
Raws ==
  {Null} \cup
  {Str(r) : r \in {<<>>, <<" ">>, <<"1">>, <<"0", "1">>, <<"a">>, <<"1", "a">>,
                   TrueText, FalseText, <<"n", "u", "l", "l">>,
                   <<"{", "}">>, <<"[", "]">>, <<"[", "1", "]">>, <<"{">>,
                   <<"{", "\"", "a", "\"", ":", "1", "}">>, <<"\"", "a", "\"">>,
                   <<"%">>, <<"%", "2", "0">>, <<"%", "7", "B", "%", "7", "D">>}}

\* Defaults (hints) and values to encode: none, null, strings, numbers,
\* booleans, objects and arrays.
Hints ==
  {Undef, Null,
   Str(<<>>), Str(<<"a">>), Str(<<"1">>), Str(TrueText), Str(<<"%", "2", "0">>),
   Str(<<"{", "}">>),
   Num(0), Num(1), Num(2), Bool(TRUE), Bool(FALSE),
   Obj(<<>>), ObjA1, Arr(<<>>), Arr(<<Num(1)>>), Arr(<<Str(<<"a">>), ObjA1>>)}

\* A codec call: the operation, its arguments, what it returned and whether
\* it threw.
CodecCall(op, raw, hint, out, thrown) ==
  [op |-> op, raw |-> raw, hint |-> hint, out |-> out, thrown |-> thrown]

\* No call made.
NoCall == CodecCall("none", Null, Undef, Undef, FALSE)

\* parseValue(raw, hint) of the hook; its whole body is inside try/catch.
CallParseValue ==
  /\ codec.op = "args"
  /\ codec' = CodecCall("parseValue", codec.raw, codec.hint,
                        parseValue(codec.raw, codec.hint), FALSE)
  /\ UNCHANGED <<store, signals, bind, hasWindow, search, hist, hidx, popListeners,
                 last, app, sig>>

\* parseValue(raw, hint) of src/src/index.ts.
CallIndexParseValue ==
  /\ codec.op = "args"
  /\ LET r == indexParseValue(codec.raw, codec.hint)
     IN codec' = CodecCall("indexParseValue", codec.raw, codec.hint, r.v, r.thrown)
  /\ UNCHANGED <<store, signals, bind, hasWindow, search, hist, hidx, popListeners,
                 last, app, sig>>

\* The shapes of an initial-parameter snapshot: an object with get, a plain
\* record with a string under the key, a plain record with an array under it.
Shapes == {"get", "record", "array"}

\* The snapshot of a shape that holds raw under the key q, or lacks the key
\* where raw is Null (get answers null; the record has no such property; the
\* array is empty).  An array holds a second element after raw.
SnapshotOf(shape, raw) ==
  CASE shape = "get" ->
         [like |-> TRUE, map |-> [k \in KeySet |-> IF k = Q THEN raw ELSE Null]]
    [] shape = "record" ->
         [like |-> FALSE,
          map |-> [k \in KeySet |-> IF k = Q /\ raw # Null THEN raw ELSE Undef]]
    [] OTHER ->
         [like |-> FALSE,
          map |-> [k \in KeySet |->
                     IF k # Q THEN Undef
                     ELSE IF raw = Null THEN Arr(<<>>)
                     ELSE Arr(<<raw, Str(<<"z">>)>>)]]

\* useQueryState('q', snapshot, hint) up to its useRef (lines 150-155), on
\* the empty store: out is the value of the Signal getSignal returned.
CallResolve(shape) ==
  /\ codec.op = "args"
  /\ LET key == KeyOf(<<"q">>)
         paramValue == getParam(SnapshotOf(shape, codec.raw), key)
         initialValue == parseValue(paramValue, codec.hint)
         g == getSignal(store, signals, key, initialValue)
     IN codec' = CodecCall(shape, codec.raw, codec.hint, g.signals[g.ref].value, FALSE)
  /\ UNCHANGED <<store, signals, bind, hasWindow, search, hist, hidx, popListeners,
                 last, app, sig>>

\* parseValue(stringifyValue(v), v), v being the hint drawn.
CallRoundTrip ==
  /\ codec.op = "args"
  /\ codec.hint # Undef
  /\ LET text == Str(stringifyValue(codec.hint))
     IN codec' = CodecCall("roundTrip", text, codec.hint,
                           parseValue(text, codec.hint), FALSE)
  /\ UNCHANGED <<store, signals, bind, hasWindow, search, hist, hidx, popListeners,
                 last, app, sig>>

Init ==
  /\ store = [k \in KeySet |-> 0]
  /\ signals = <<>>
  /\ bind = [b \in Bindings |-> Unborn]
  /\ app \in 1..Len(Apps)
  /\ hasWindow \in BOOLEAN
  /\ search \in (IF hasWindow THEN Apps[app].searches ELSE {NoQuery})
  /\ hist = <<search>>
  /\ hidx = 1
  /\ popListeners = <<>>
  /\ last = NoEvent
  /\ sig = NoSignal
  /\ codec = NoCall

Next ==
  \/ \E b \in Bindings, c \in Apps[app].configs : useQueryState(b, c.name, c.params, c.dflt)
  \/ \E b \in Bindings : MountEffects(b)
  \/ \E b \in Bindings : Rerender(b)
  \/ \E b \in Bindings : RerenderNewDefault(b)
  \/ \E b \in Bindings, inp \in Apps[app].inputs : setQueryValue(b, inp)
  \/ \E d \in {-1, 1} : popstate(d)
  \/ \E b \in Bindings : Unmount(b)

Spec == Init /\ [][Next]_vars

\* The hook unused: nothing rendered, no window.
Idle ==
  /\ store = [k \in KeySet |-> 0]
  /\ signals = <<>>
  /\ bind = [b \in Bindings |-> Unborn]
  /\ app = 1
  /\ hasWindow = FALSE
  /\ search = NoQuery
  /\ hist = <<NoQuery>>
  /\ hidx = 1
  /\ popListeners = <<>>
  /\ last = NoEvent

\* A page whose first component is live when its handlers write the key, and
\* which then shows a second component bound with the same arguments: the
\* browser is there, every setter call changes the Signal, and nobody
\* navigates.
InitRemount == Init /\ hasWindow

FirstComponent ==
  \/ \E c \in Apps[app].configs : useQueryState(1, c.name, c.params, c.dflt)
  \/ MountEffects(1)
  \/ Rerender(1)

Writes ==
  \E inp \in Apps[app].inputs :
     /\ bind[1].phase = "live" /\ bind[2].phase = "unborn"
     /\ inp.fn # "throw"
     /\ NextValue(1, inp) # signals[bind[1].signalRef].value
     /\ setQueryValue(1, inp)

SecondComponent ==
  \/ \E c \in Apps[app].configs :
        /\ last.op = "set"
        /\ KeyOf(c.name) = bind[1].key /\ c.dflt = bind[1].dflt
        /\ useQueryState(2, c.name, c.params, c.dflt)
  \/ MountEffects(2)
  \/ Rerender(2)

NextRemount == FirstComponent \/ Writes \/ SecondComponent

SpecRemount == InitRemount /\ [][NextRemount]_vars

\* A client driving one Signal: any order of subscribe, unsubscribe and
\* notify calls.
InitSignal == Idle /\ sig = NewSignal(Num(0)) /\ codec = NoCall

NextSignal ==
  \/ \E fn \in Fns : SigSubscribe(fn)
  \/ \E fn \in Fns, again \in BOOLEAN : SigUnsubscribe(fn, again)
  \/ \E v \in SigValues : SigNotify(v)
  \/ \E v \in SigValues : SigSetter(v)

SpecSignal == InitSignal /\ [][NextSignal]_vars

\* One call of the codec on any raw value and hint.
InitCodec ==
  /\ Idle
  /\ sig = NoSignal
  /\ codec \in {CodecCall("args", r, h, Undef, FALSE) : r \in Raws, h \in Hints}

\* Numeric texts that are not runs of digits.  They are passed to parseValue
\* without a hint only, where neither Number() nor JSON.parse is applied to
\* them.
NumericTexts == {Str(<<"-", "5">>), Str(<<"+", "5">>), Str(<<"1", ".", "5">>)}

\* parseValue(raw) called without a default.
CallParseValueNoHint ==
  /\ codec.op = "args"
  /\ \E raw \in (Raws \ {Null}) \cup NumericTexts :
       codec' = CodecCall("infer", raw, Undef, parseValue(raw, Undef), FALSE)
  /\ UNCHANGED <<store, signals, bind, hasWindow, search, hist, hidx, popListeners,
                 last, app, sig>>

NextCodec ==
  \/ CallParseValue
  \/ CallIndexParseValue
  \/ CallRoundTrip
  \/ \E shape \in Shapes : CallResolve(shape)
  \/ CallParseValueNoHint

SpecCodec == InitCodec /\ [][NextCodec]_vars

(***************************************************************************)
(* Properties                                                               *)
(***************************************************************************)
Created(b) == bind[b].phase # "unborn"

SignalOf(b) == signals[bind[b].signalRef]

Listeners(b) == SignalOf(b).listeners

\* The registered popstate listener on key k that runs last.
LastListenerOn(k) ==
  popListeners[CHOOSE i \in 1..Len(popListeners) :
     /\ bind[popListeners[i]].key = k
     /\ \A j \in (i + 1)..Len(popListeners) : bind[popListeners[j]].key # k]

\* C1: a key has at most one Signal, and every binding created on a key holds
\* the instance the registry holds for that key: the instance getSignal
\* returned to it is never removed or replaced, whatever the order of
\* creation and teardown.
C1_OneSignalPerKey ==
  /\ Len(signals) = Cardinality({k \in KeySet : store[k] # 0})
  /\ \A k \in KeySet : store[k] \in 0..Len(signals)
  /\ \A b \in Bindings : Created(b) =>
       bind[b].signalRef # 0 /\ store[bind[b].key] = bind[b].signalRef

\* C1 witness: a binding was just created on a key whose only earlier
\* binding had been torn down, and got the existing instance.
C1_Witness ==
  /\ last.op = "render" /\ last.b = 2 /\ last.flag
  /\ bind[1].phase = "unmounted" /\ bind[1].key = bind[2].key

\* C2: when a setter returns, the Signal's value and the local value of every
\* binding subscribed to it equal the written value.
C2_WriteVisibleToAll ==
  (last.op = "set" /\ ~last.flag) =>
     /\ SignalOf(last.b).value = last.v
     /\ \A b \in Bindings : InSeq(b, Listeners(last.b)) => bind[b].value = last.v

\* C2 witness: a setter wrote a new value while the writer and another
\* binding were subscribed.
C2_Witness ==
  /\ last.op = "set" /\ ~last.flag /\ last.v = Str(<<"h", "i">>)
  /\ Len(Listeners(last.b)) = 2 /\ InSeq(last.b, Listeners(last.b))

\* C3 (as claimed): a binding created right after a setter wrote its key's
\* Signal, another binding being subscribed to it, returns the Signal's value
\* from its first render.
C3_FirstRenderReturnsSignalValue ==
  (last.op = "render" /\ last.diff /\ Len(Listeners(last.b)) >= 1) =>
     Returned(bind[last.b]) = SignalOf(last.b).value

\* C4: an updater is applied to the Signal's value as it was when the setter
\* was called, so each inc call adds one to the Signal, whatever the calling
\* binding's local copy holds.
C4_UpdaterSeesSignalValue ==
  (last.op = "set" /\ last.fn = "inc") =>
     /\ SignalOf(last.b).value = ApplyUpdater("inc", last.pre)
     /\ last.pre.t = "number" => SignalOf(last.b).value = Num(last.pre.n + 1)

\* C4 witness: an inc call by a binding whose local copy differed from the
\* Signal's value.
C4_Witness ==
  /\ last.op = "set" /\ last.fn = "inc" /\ last.diff
  /\ last.pre.t = "number" /\ bind[last.b].phase \in {"mounted", "live"}

\* C5 (as claimed): a reconciliation that finds the key absent from the live
\* URL leaves the Signal's value as it was.
C5_AbsentKeyWritesNothing ==
  (last.op = "reconcile" /\ ~last.flag /\ search[bind[last.b].key] = Null) => ~last.diff

\* C5 (amended): a reconciliation that finds the key absent from the live URL
\* writes the binding's default to the Signal and to every subscriber.
C5_AbsentKeyWritesDefault ==
  (last.op = "reconcile" /\ search[bind[last.b].key] = Null) =>
     /\ SignalOf(last.b).value = bind[last.b].dflt
     /\ \A b \in Bindings : InSeq(b, Listeners(last.b)) => bind[b].value = bind[last.b].dflt

\* C5 witness: the mount reconciliation found the key absent and replaced a
\* Signal value that was not the default.
C5_Witness ==
  /\ last.op = "reconcile" /\ ~last.flag /\ last.diff
  /\ search[bind[last.b].key] = Null

\* C6: after a reconciliation that finds the key in the live URL, the Signal
\* and every subscribed binding hold the decoding of the URL's value with the
\* binding's default as hint.
C6_PresentKeyWritesUrlValue ==
  (last.op = "reconcile" /\ search[bind[last.b].key] # Null) =>
     LET urlValue == parseValue(search[bind[last.b].key], bind[last.b].dflt)
     IN /\ SignalOf(last.b).value = urlValue
        /\ \A b \in Bindings : InSeq(b, Listeners(last.b)) => bind[b].value = urlValue

\* C6 witness: the mount reconciliation replaced a value seeded from a
\* snapshot that differs from the live URL.
C6_Witness ==
  /\ last.op = "reconcile" /\ ~last.flag /\ last.diff
  /\ search[bind[last.b].key] # Null
  /\ bind[last.b].initialValue # SignalOf(last.b).value
  /\ bind[last.b].initialValue # bind[last.b].dflt

\* C7 (as claimed): no binding runs its reconciliation a second time.
C7_ReconcilesOnce == ~(last.op = "reconcile" /\ last.flag)

\* C8: after a back/forward event, every key that is in the URL and has a
\* registered listener has its Signal, and every binding subscribed to it, at
\* the decoding of the URL's value (the hint being the default of the
\* listener that ran last).
C8_NavigationWritesUrlValue ==
  last.op = "pop" =>
    \A k \in KeySet :
      (search[k] # Null /\ \E i \in 1..Len(popListeners) : bind[popListeners[i]].key = k) =>
         LET w == LastListenerOn(k)
             urlValue == parseValue(search[k], bind[w].dflt)
         IN /\ SignalOf(w).value = urlValue
            /\ \A b \in Bindings : InSeq(b, Listeners(w)) => bind[b].value = urlValue

\* C8 witness: a back/forward event to a URL that holds the key changed the
\* Signal while two bindings were subscribed.
C8_Witness ==
  /\ last.op = "pop" /\ last.diff /\ search[Q] # Null
  /\ store[Q] # 0 /\ Len(signals[store[Q]].listeners) = 2
  /\ \E i \in 1..Len(popListeners) : bind[popListeners[i]].key = Q

\* C9: with the browser available, a setter that wrote null, false or the
\* empty string leaves the key out of the query, and one that wrote any other
\* value leaves the key in it with the value's encoding: 0 stays as "0".
C9_AbsencePolicy ==
  (last.op = "set" /\ ~last.flag /\ hasWindow) =>
     LET k == bind[last.b].key
     IN /\ last.v \in {Null, Bool(FALSE), Str(<<>>)} => search[k] = Null
        /\ last.v \notin {Null, Bool(FALSE), Str(<<>>)} =>
             search[k] = Str(encodeURIComponent(stringifyValue(last.v)))
        /\ last.v = Num(0) => search[k] = Str(<<"0">>)
        /\ hist[hidx] = search

\* C9 witness: a setter wrote 0 and the key stayed in the query.
C9_Witness ==
  /\ last.op = "set" /\ hasWindow /\ last.v = Num(0)
  /\ search[bind[last.b].key] # Null

\* C10 (as claimed): a setter whose resulting value is undefined removes the
\* key from the query.
C10_UndefinedRemovesKey ==
  (last.op = "set" /\ ~last.flag /\ hasWindow /\ last.v = Undef) =>
     search[bind[last.b].key] = Null

\* C11 (as claimed): with the browser available every setter call makes the
\* history exactly one entry longer: the entries it had stay, the entry added
\* is the current one, and the entry before it holds the URL as it was before
\* the call.
C11_EverySetterCallAppends ==
  [][(last'.op = "set" /\ hasWindow) =>
       /\ Len(hist') = Len(hist) + 1
       /\ SubSeq(hist', 1, Len(hist)) = hist
       /\ hidx' = Len(hist')
       /\ hist'[hidx' - 1] = search]_vars

\* C11 (amended): with the browser available a setter call whose updater does
\* not throw pushes exactly one entry after the current one, in place of the
\* entries that were ahead of it, also when the value written is the one held:
\* the new entry is current and holds the URL written, the entry before it
\* holds the URL as it was before the call, and where nothing was ahead the
\* history is one entry longer.  A call whose updater throws leaves the
\* history and the URL as they were.
C11_WritePushesOneEntry ==
  [][(last'.op = "set" /\ hasWindow) =>
       IF last'.flag THEN UNCHANGED <<hist, hidx, search>>
       ELSE /\ hidx' = hidx + 1
            /\ Len(hist') = hidx'
            /\ SubSeq(hist', 1, hidx) = SubSeq(hist, 1, hidx)
            /\ hist'[hidx'] = search'
            /\ hist'[hidx' - 1] = search
            /\ hidx = Len(hist) => Len(hist') = Len(hist) + 1]_vars

\* C11 witness: two setter calls in a row, the second writing the value
\* already held, left two new entries with the same URL.
C11_Witness ==
  /\ last.op = "set" /\ ~last.flag /\ hasWindow /\ ~last.diff
  /\ hidx = 3 /\ Len(hist) = 3
  /\ hist[3] = hist[2] /\ hist[2] # hist[1]
  /\ SignalOf(last.b).value = last.v

\* C12: a teardown removes the binding from its Signal's listeners and from
\* the popstate listeners and changes nothing else: the registry, every
\* Signal's value, the other listeners of every Signal and the other popstate
\* listeners (their order included), the other bindings, the URL and the
\* history stay as they were; and from then on no step calls the torn-down
\* binding's listeners: it is on no list and its state never changes.
C12_TeardownRemovesOnlyOwn ==
  [][/\ last'.op = "unmount" =>
          LET b == last'.b
          IN /\ store' = store
             /\ Len(signals') = Len(signals)
             /\ \A i \in 1..Len(signals) :
                  /\ signals'[i].value = signals[i].value
                  /\ ~InSeq(b, signals'[i].listeners)
                  /\ Without(signals'[i].listeners, b) = Without(signals[i].listeners, b)
                  /\ i # bind[b].signalRef => signals'[i].listeners = signals[i].listeners
             /\ ~InSeq(b, popListeners')
             /\ Without(popListeners', b) = Without(popListeners, b)
             /\ \A c \in Bindings \ {b} : bind'[c] = bind[c]
             /\ bind'[b].value = bind[b].value
             /\ UNCHANGED <<search, hist, hidx>>
     /\ \A b \in Bindings : bind[b].phase = "unmounted" =>
          /\ bind'[b] = bind[b]
          /\ ~InSeq(b, popListeners')
          /\ \A i \in 1..Len(signals') : ~InSeq(b, signals'[i].listeners)]_vars

\* C12 witness: after one binding of a key was torn down, another binding
\* subscribed to the same Signal wrote a value that the torn-down binding
\* does not hold.
C12_Witness ==
  /\ last.op = "set" /\ ~last.flag /\ hasWindow
  /\ InSeq(last.b, Listeners(last.b)) /\ InSeq(last.b, popListeners)
  /\ \E b \in Bindings :
       /\ bind[b].phase = "unmounted"
       /\ bind[b].signalRef = bind[last.b].signalRef
       /\ bind[b].value # last.v

\* C16: the first render of a binding on a key that already has a Signal
\* (its only store operation is getSignal(key, initialValue)) leaves the
\* registry, that Signal's value and listeners and every other Signal and
\* binding as they were, and the binding holds the existing instance; in
\* every state getSignal on a key that has a Signal returns that instance and
\* an unchanged store, whatever the value passed.
C16_ExistingKeyUntouched ==
  [][/\ (last'.op = "render" /\ last'.flag) =>
          /\ store' = store
          /\ signals' = signals
          /\ \A c \in Bindings \ {last'.b} : bind'[c] = bind[c]
          /\ bind'[last'.b].signalRef = store[bind'[last'.b].key]
     /\ \A k \in KeySet, v \in Hints : store[k] # 0 =>
          LET g == getSignal(store, signals, k, v)
          IN g.store = store /\ g.signals = signals /\ g.ref = store[k]]_vars

\* C16 witness: a binding was created on a key whose Signal had a subscriber
\* and held a value other than the one the new binding resolved, and the
\* Signal kept its value.
C16_Witness ==
  /\ last.op = "render" /\ last.flag
  /\ Len(Listeners(last.b)) >= 1
  /\ SignalOf(last.b).value # bind[last.b].initialValue
  /\ SignalOf(last.b).value # bind[last.b].dflt

\* C13: a notify(v) call invokes the listeners that were in the array when it
\* was called, each once per subscription, in order and with v, also when the
\* Signal already held v and also when a listener unsubscribes during the
\* call; afterwards the Signal holds v.
C13_NotifyInvokesEveryListener ==
  sig.ev.op = "notify" =>
     /\ sig.value = sig.ev.v
     /\ Len(sig.ev.calls) = Len(sig.ev.pre)
     /\ \A i \in 1..Len(sig.ev.pre) : sig.ev.calls[i] = <<sig.ev.pre[i], sig.ev.v>>

\* C13 witness: notify was called with the value already held while three
\* listeners were subscribed, the first of which unsubscribed itself during
\* the call.
C13_Witness ==
  /\ sig.ev.op = "notify" /\ sig.ev.same
  /\ Len(sig.ev.pre) = 3 /\ sig.ev.pre[1] = "o" /\ sig.ev.pre[3] = "a"
  /\ Len(sig.ev.calls) = 3 /\ ~InSeq("o", sig.listeners)

\* C14: when listeners throw during notify(v), the call does not throw to its
\* caller, the Signal holds v, each exception is logged, and every listener
\* that does not throw, before or after a throwing one, is invoked with v as
\* many times as it is subscribed.
C14_ListenerExceptionContained ==
  (sig.ev.op = "notify" /\ InSeq("t", sig.ev.pre)) =>
     /\ ~sig.ev.thrown
     /\ sig.value = sig.ev.v
     /\ sig.ev.caught = Cardinality({i \in 1..Len(sig.ev.pre) : sig.ev.pre[i] = "t"})
     /\ \A fn \in Fns \ {"t"} :
          Cardinality({i \in 1..Len(sig.ev.calls) : sig.ev.calls[i] = <<fn, sig.ev.v>>})
            = Cardinality({i \in 1..Len(sig.ev.pre) : sig.ev.pre[i] = fn})

\* C14 witness: notify changed the value while a throwing listener was
\* subscribed ahead of two others, and both were invoked.
C14_Witness ==
  /\ sig.ev.op = "notify" /\ ~sig.ev.same
  /\ sig.ev.pre = <<"t", "a", "b">>
  /\ sig.ev.caught = 1
  /\ sig.ev.calls[3] = <<"b", sig.value>>

\* C15 (as claimed): a call of an unsubscribe function that has been called
\* before leaves the Signal's listeners as they were.
C15_RepeatedUnsubscribeChangesNothing ==
  (sig.ev.op = "unsubscribe" /\ sig.ev.again) => sig.listeners = sig.ev.pre

\* C15 (amended): a call of an unsubscribe function, the first or a later
\* one, does not throw, leaves the other listeners as they were (order and
\* number of subscriptions included) and leaves the function's own listener
\* unsubscribed; where that listener is not subscribed at the call, the call
\* changes nothing.
C15_UnsubscribeRemovesOwnOnly ==
  sig.ev.op = "unsubscribe" =>
     /\ ~sig.ev.thrown
     /\ ~InSeq(sig.ev.fn, sig.listeners)
     /\ Without(sig.listeners, sig.ev.fn) = Without(sig.ev.pre, sig.ev.fn)
     /\ ~InSeq(sig.ev.fn, sig.ev.pre) => sig.listeners = sig.ev.pre

\* C15 witness: an unsubscribe function was called again while its listener
\* was not subscribed and two others were, and the list stayed as it was.
C15_Witness ==
  /\ sig.ev.op = "unsubscribe" /\ sig.ev.again
  /\ ~InSeq(sig.ev.fn, sig.ev.pre)
  /\ Len(sig.ev.pre) = 2 /\ sig.listeners = sig.ev.pre

\* C17 (as claimed): for every string, number, boolean, null, object and array
\* v, decoding the text stringifyValue gives for v, with v as the hint,
\* returns v.
C17_RoundTrip ==
  codec.op = "roundTrip" => codec.out = codec.hint

\* C18 (as claimed): with an object hint parseValue returns the hint for a
\* present string that does not decode, does not parse, or parses to anything
\* but an object, and with an array hint for one that parses to anything but an
\* array; so the result is an object under an object hint and an array under
\* an array hint.
C18_StructuredHintKeepsShape ==
  (codec.op = "parseValue" /\ codec.raw # Null
     /\ (isObject(codec.hint) \/ isArray(codec.hint))) =>
     LET d == decodeURIComponent(codec.raw.s)
         p == JSONparse(d.s)
         parsedObject == d.ok /\ p.ok /\ isObject(p.v)
         parsedArray == d.ok /\ p.ok /\ isArray(p.v)
     IN /\ (isObject(codec.hint) /\ ~parsedObject) => codec.out = codec.hint
        /\ (isArray(codec.hint) /\ ~parsedArray) => codec.out = codec.hint
        /\ isObject(codec.hint) => isObject(codec.out)
        /\ isArray(codec.hint) => isArray(codec.out)

\* C19 (as claimed): for a present string, with a boolean hint parseValue
\* returns true for "true", false for "false" and the hint for any other text;
\* with a numeric hint it returns the number the text denotes where the text
\* is a numeric literal (digits, with an optional sign) and the hint for any
\* other text; the result has the hint's type.
C19_ScalarHintForcesType ==
  (codec.op = "parseValue" /\ codec.raw # Null
     /\ (isBoolean(codec.hint) \/ isNumber(codec.hint))) =>
     LET d == decodeURIComponent(codec.raw.s)
         signed == d.s # <<>> /\ Head(d.s) \in {"-", "+"}
         digits == IF signed THEN Tail(d.s) ELSE d.s
         literal == d.ok /\ AllDigits(digits)
         number == IF signed /\ Head(d.s) = "-" THEN 0 - DigitsToNat(digits)
                   ELSE DigitsToNat(digits)
     IN /\ isBoolean(codec.hint) =>
             codec.out = IF d.ok /\ d.s = TrueText THEN Bool(TRUE)
                         ELSE IF d.ok /\ d.s = FalseText THEN Bool(FALSE)
                         ELSE codec.hint
        /\ isNumber(codec.hint) =>
             codec.out = IF literal THEN Num(number) ELSE codec.hint
        /\ codec.out.t = codec.hint.t

\* C20 (as claimed): no parseValue of the repository throws, whatever the raw
\* string and the hint; for a string whose percent-encoding is malformed the
\* result is the hint, and for one that opens like structured text and does
\* not parse it is the decoded string or the hint.
C20_ParseNeverThrows ==
  codec.op \in {"parseValue", "indexParseValue"} =>
     /\ ~codec.thrown
     /\ codec.raw # Null =>
          LET d == decodeURIComponent(codec.raw.s)
          IN /\ ~d.ok => codec.out = codec.hint
             /\ (d.ok /\ d.s # <<>> /\ d.s[1] \in {"{", "["} /\ ~JSONparse(d.s).ok) =>
                  codec.out \in {Str(d.s), codec.hint}

\* C21: the value a binding resolves, and seeds a new Signal with, is the
\* decoding of the snapshot's value for the key with the default as hint where
\* the snapshot holds the key, whatever the snapshot's shape (an object with
\* get, a plain record, or a record holding an array, whose first element
\* counts), and is the default itself where the snapshot lacks the key.
C21_InitialValueFromSnapshot ==
  codec.op \in Shapes =>
     codec.out = IF codec.raw # Null THEN parseValue(codec.raw, codec.hint)
                 ELSE codec.hint

\* C21 witness: a record snapshot holding an array under the key was resolved
\* with a numeric default to the number its first element denotes.
C21_Witness ==
  /\ codec.op = "array" /\ codec.raw = Str(<<"1">>) /\ codec.hint = Num(0)
  /\ codec.out = Num(1)

\* C22: without the browser every operation of the hook still runs and none
\* touches the URL, the history or the popstate listeners; a setter call
\* whose updater does not throw leaves its value in the Signal and in every
\* subscribed binding; and no other operation changes the value of a Signal,
\* so each Signal holds the value its first binding resolved until a write.
C22_NoWindowNothingFails ==
  [][~hasWindow =>
       /\ UNCHANGED <<search, hist, hidx, popListeners>>
       /\ popListeners = <<>> /\ hist = <<NoQuery>>
       /\ (last'.op = "set" /\ ~last'.flag) =>
            /\ signals'[bind[last'.b].signalRef].value = last'.v
            /\ \A b \in Bindings :
                 InSeq(b, signals[bind[last'.b].signalRef].listeners) =>
                    bind'[b].value = last'.v
       /\ (last'.op # "set" \/ last'.flag) =>
            /\ \A i \in 1..Len(signals) : signals'[i].value = signals[i].value
            /\ \A b \in Bindings : Created(b) => bind'[b].value = bind[b].value]_vars

\* C22 witness: without the browser, a binding whose snapshot value differs
\* from its default went through its mount and re-render, and its Signal and
\* its own copy still hold the snapshot's value.
C22_Witness ==
  /\ ~hasWindow
  /\ \E b \in Bindings :
       /\ bind[b].phase = "live"
       /\ bind[b].initialValue # bind[b].dflt
       /\ SignalOf(b).value = bind[b].initialValue
       /\ bind[b].value = bind[b].initialValue
       /\ last.op = "rerender" /\ last.b = b

\* C23: between handlers, every binding that has subscribed and has run its
\* reconciliation against the URL, and has not been torn down, holds as its
\* local value the current value of its key's Signal.
C23_LiveBindingsFollowSignal ==
  \A b \in Bindings :
     (bind[b].phase = "live" /\ bind[b].reconciled) =>
        /\ InSeq(b, Listeners(b))
        /\ bind[b].signalRef = store[bind[b].key]
        /\ bind[b].value = SignalOf(b).value

\* C23 witness: a back/forward event changed the Signal while two reconciled
\* bindings were live on its key, one of which had been created after a write
\* with a stale first value, and both hold the Signal's new value.
C23_Witness ==
  /\ last.op = "pop" /\ last.diff
  /\ \A b \in Bindings :
       /\ bind[b].phase = "live" /\ bind[b].reconciled
       /\ bind[b].key = Q
       /\ bind[b].value = signals[store[Q]].value
  /\ signals[store[Q]].value # bind[1].initialValue

\* C24 (as claimed): when a second binding with the same key and default is
\* created and mounted after a setter call changed the Signal, the browser
\* being there and nobody having navigated, its reconciliation leaves the
\* Signal at the value written.
C24_MountKeepsWrittenValue ==
  (last.op = "reconcile" /\ last.b = 2) => ~last.diff

\* C25: in a notify(v) call the Signal holds v from the first listener
\* invocation on, so every listener is invoked with the value the Signal
\* holds at that moment, and every listener of the array has been invoked
\* when notify returns, which is when a setter goes on to the URL.
C25_NotifyOrdering ==
  sig.ev.op \in {"notify", "set"} =>
     /\ Len(sig.seen) = Len(sig.ev.pre)
     /\ Len(sig.ev.calls) = Len(sig.ev.pre)
     /\ \A i \in 1..Len(sig.seen) :
          sig.seen[i] = sig.ev.v /\ sig.ev.calls[i][2] = sig.seen[i]
     /\ sig.ev.op = "set" => sig.pushedAt = Len(sig.ev.pre)

\* C25 witness: a setter changed the value while three listeners were
\* subscribed, one throwing and one unsubscribing itself; each saw the new
\* value and all three had been invoked when the setter went on.
C25_Witness ==
  /\ sig.ev.op = "set" /\ ~sig.ev.same
  /\ sig.ev.pre = <<"o", "t", "a">>
  /\ sig.seen = <<sig.value, sig.value, sig.value>>
  /\ sig.pushedAt = 3

\* C26: after a back/forward event to a URL without the key, the bindings
\* listening for the event on that key all having the default d, the key's
\* Signal and every binding subscribed to it hold d.
C26_NavigationToAbsentKeyResets ==
  last.op = "pop" =>
     \A i \in 1..Len(popListeners) :
        LET b == popListeners[i]
        IN (/\ search[bind[b].key] = Null
            /\ \A j \in 1..Len(popListeners) :
                 bind[popListeners[j]].key = bind[b].key =>
                    bind[popListeners[j]].dflt = bind[b].dflt)
           => /\ SignalOf(b).value = bind[b].dflt
              /\ \A c \in Bindings : InSeq(c, Listeners(b)) => bind[c].value = bind[b].dflt

\* C26 witness: a back/forward event to a URL without q, two bindings with
\* one default listening on q, replaced the written value by that default.
C26_Witness ==
  /\ last.op = "pop" /\ last.diff
  /\ search[Q] = Null
  /\ Len(popListeners) = 2
  /\ \A b \in Bindings :
       bind[b].key = Q /\ bind[b].dflt = bind[1].dflt /\ InSeq(b, Listeners(b))
  /\ signals[store[Q]].value = bind[1].dflt
  /\ bind[1].value = bind[1].dflt /\ bind[2].value = bind[1].dflt

\* C27: only a setter call changes the history entries; a mount
\* reconciliation, a render or a teardown leaves the query and the current
\* entry as they were, and after a back/forward event the query is the one
\* of the entry the browser moved to, no entry added or replaced.
C27_OnlySettersWriteUrl ==
  [][last'.op # "set" =>
       /\ hist' = hist
       /\ last'.op # "pop" => (search' = search /\ hidx' = hidx)
       /\ last'.op = "pop" => search' = hist[hidx']]_vars

\* C27 witness: a back/forward event changed a Signal, the history holding
\* an entry after the current one, and the query is the current entry's.
C27_Witness ==
  /\ last.op = "pop" /\ last.diff
  /\ hidx < Len(hist) /\ search = hist[hidx]

\* C28: a setter call by a binding on key k leaves every other key's query
\* entry, every other key's Signal value and the local value of every
\* binding on another key as they were.
C28_SetterTouchesOwnKeyOnly ==
  [][last'.op = "set" =>
       LET k == bind[last'.b].key
       IN /\ \A o \in DOMAIN search : o # k => search'[o] = search[o]
          /\ \A o \in DOMAIN store :
               (o # k /\ store[o] # 0) => signals'[store[o]].value = signals[store[o]].value
          /\ \A b \in Bindings :
               (bind[b].phase # "unborn" /\ bind[b].key # k) => bind'[b].value = bind[b].value]_vars

\* C28 witness: a setter wrote q into the query while p was in it, a live
\* binding on p holding another value than the one written.
C28_Witness ==
  /\ last.op = "set" /\ bind[last.b].key = Q
  /\ search[Q] # Null
  /\ \E o \in DOMAIN search : o # Q /\ search[o] # Null
  /\ \E b \in Bindings :
       /\ bind[b].phase = "live" /\ bind[b].key # Q
       /\ bind[b].value # last.v

\* C29: a setter call whose updater throws returns to its caller, the
\* exception logged, with every Signal, every binding, the query and the
\* history as they were before the call.
C29_ThrowingUpdaterChangesNothing ==
  [][last'.fn = "throw" =>
       /\ last'.op = "set" /\ last'.flag
       /\ signals' = signals /\ bind' = bind /\ store' = store
       /\ search' = search /\ hist' = hist /\ hidx' = hidx]_vars

\* C29 witness: a throwing updater was passed to the setter of a live binding
\* after an earlier write, the Signal, the query and the history at what that
\* write left.
C29_Witness ==
  /\ last.op = "set" /\ last.flag /\ last.fn = "throw"
  /\ bind[last.b].phase = "live" /\ bind[last.b].value = Num(1)
  /\ SignalOf(last.b).value = Num(1)
  /\ search[Q] = Str(<<"1">>) /\ Len(hist) = 2 /\ hidx = 2

\* C30: parseValue of a present string without a hint gives, d being the
\* percent-decoded string: the boolean for "true" and "false"; the number for
\* a run of digits; d itself for a signed or fractional numeric text; for a d
\* that begins with "{" or "[" its JSON parse, or d where the parse fails;
\* and d itself for any other text.
C30_InferenceClasses ==
  (codec.op = "infer" /\ decodeURIComponent(codec.raw.s).ok) =>
     LET d == decodeURIComponent(codec.raw.s).s
         numeric == /\ d # <<>> /\ ~AllDigits(d)
                    /\ \A i \in 1..Len(d) : IsDigit(d[i]) \/ d[i] \in {"-", "+", "."}
         structured == d # <<>> /\ d[1] \in {"{", "["}
     IN /\ ~codec.thrown
        /\ d = TrueText => codec.out = Bool(TRUE)
        /\ d = FalseText => codec.out = Bool(FALSE)
        /\ AllDigits(d) => codec.out = Num(DigitsToNat(d))
        /\ numeric => codec.out = Str(d)
        /\ structured =>
             codec.out = (IF JSONparse(d).ok THEN JSONparse(d).v ELSE Str(d))
        /\ (d \notin {TrueText, FalseText} /\ ~AllDigits(d) /\ ~structured) =>
             codec.out = Str(d)

\* C30 witness: parseValue('-5') was called without a hint and returned the
\* string '-5'.
C30_Witness ==
  /\ codec.op = "infer" /\ codec.raw = Str(<<"-", "5">>)
  /\ codec.out = Str(<<"-", "5">>)

====
